---- MODULE Spec2Model ----
(***************************************************************************)
(* scripts/generate-icons.py: the icon generator of the Starling Home Hub  *)
(* Homey app.  main() walks the DEVICE_ICONS catalog and, for every entry, *)
(* creates drivers/<name>/assets/images, renders the entry's SVG document  *)
(* (generate_svg), writes it to icon.svg, runs rsvg-convert once per size  *)
(* and removes icon.svg again.                                             *)
(*                                                                         *)
(* Text is modelled as a sequence of tokens: "{" and "}" are the two brace *)
(* characters, every other token is a maximal run of brace-free text.  The *)
(* concatenation of the tokens is the string.  The markup of a catalog     *)
(* entry between two placeholders is carried as one token named            *)
(* "<device>/<n>" (the n-th brace-free run of that entry's fragment); the  *)
(* braces and the field names between them are the source's own.           *)
(*                                                                         *)
(* A path is the sequence of its segments below the repository root.       *)
(* The filesystem is the set of directories (dirs) and the contents of the *)
(* regular files (files).  The destination tree is writable, as the script *)
(* assumes; the operating-system errors that the calls raise on the state  *)
(* of the tree itself (a missing parent, an existing directory) are        *)
(* modelled.                                                               *)
(***************************************************************************)
EXTENDS Integers, Sequences, FiniteSets, TLC

\* Bounds of the model.
\* MaxRejects: how many (document, width) pairs the rasterizer may reject.
MaxRejects == 2
\* MaxLen: the longest shape fragment, in tokens, handed to generate_svg alone.
MaxLen == 6

----------------------------------------------------------------------------
\* Results of a call: a returned value or a raised exception.
Return(v) == [ok |-> TRUE, value |-> v]
Raise(e) == [ok |-> FALSE, exc |-> e]

\* Brand colors
TEAL == "#44DBBD"
DARK_GRAY == "#2F2E2E"

\* The document template; its one replacement field is {icon_path}.
SVG_TEMPLATE ==
  << "<?xml version=\"1.0\" encoding=\"UTF-8\"?>\n",
     "<svg width=\"1000\" height=\"1000\" viewBox=\"0 0 1000 1000\" xmlns=\"http://www.w3.org/2000/svg\">\n",
     "  <!-- White background required by Homey -->\n",
     "  <rect width=\"1000\" height=\"1000\" fill=\"white\"/>\n",
     "  <g transform=\"translate(500, 500)\">\n",
     "    ", "{", "icon_path", "}", "\n",
     "  </g>\n",
     "</svg>\n" >>

Braces == {"{", "}"}

\* The first index >= i of a brace in s, or 0.
RECURSIVE brace_from(_, _)
brace_from(s, i) ==
  IF i > Len(s) THEN 0
  ELSE IF s[i] \in Braces THEN i
  ELSE brace_from(s, i + 1)

\* str.format(**kwargs) from position i on, acc being the text produced so far.
\* A doubled brace is an escaped brace; a single "}" and an unclosed "{" are a
\* ValueError, as is a "{" inside a field; an empty field is positional and,
\* with no positional arguments, an IndexError; a field name that is no keyword
\* is a KeyError.  The first error, left to right, is the one raised.
RECURSIVE vformat(_, _, _, _)
vformat(s, kwargs, i, acc) ==
  IF i > Len(s) THEN Return(acc)
  ELSE IF s[i] \notin Braces THEN vformat(s, kwargs, i + 1, Append(acc, s[i]))
  ELSE IF i = Len(s) THEN Raise("ValueError")
  ELSE IF s[i + 1] = s[i] THEN vformat(s, kwargs, i + 2, Append(acc, s[i]))
  ELSE IF s[i] = "}" THEN Raise("ValueError")
  ELSE LET j == brace_from(s, i + 1) IN
       IF j = 0 THEN Raise("ValueError")
       ELSE IF s[j] = "{" THEN Raise("ValueError")
       ELSE IF j = i + 1 THEN Raise("IndexError")
       ELSE IF j = i + 2 /\ s[i + 1] \in DOMAIN kwargs
            THEN vformat(s, kwargs, j + 1, acc \o kwargs[s[i + 1]])
       ELSE Raise("KeyError")

\* A format that leaves an unknown field in place instead of raising.
format_lenient(s, kwargs) ==
  LET known == [k \in 1..Len(s) |->
                  k > 1 /\ k < Len(s) /\ s[k - 1] = "{" /\ s[k + 1] = "}"
                  /\ s[k] \in DOMAIN kwargs]
      piece(k) == IF known[k] THEN kwargs[s[k]]
                  ELSE IF k < Len(s) /\ known[k + 1] THEN <<>>
                  ELSE IF k > 1 /\ known[k - 1] THEN <<>>
                  ELSE <<s[k]>>
      RECURSIVE join(_)
      join(k) == IF k > Len(s) THEN <<>> ELSE piece(k) \o join(k + 1)
  IN Return(join(1))

format(s, kwargs) == vformat(s, kwargs, 1, <<>>)

\* The template with its background rectangle after the icon's group.
generate_svg_group_first(device_name, icon_path) ==
  LET icon_with_colors == format(icon_path, [teal |-> <<TEAL>>, dark |-> <<DARK_GRAY>>])
      t == SVG_TEMPLATE
  IN IF ~icon_with_colors.ok THEN icon_with_colors
     ELSE format(<<t[1], t[2]>> \o SubSeq(t, 5, 11) \o <<t[3], t[4], t[12]>>,
                 [icon_path |-> icon_with_colors.value])

generate_svg(device_name, icon_path) ==
  LET icon_with_colors == format(icon_path, [teal |-> <<TEAL>>, dark |-> <<DARK_GRAY>>])
  IN IF ~icon_with_colors.ok THEN icon_with_colors
     ELSE format(SVG_TEMPLATE, [icon_path |-> icon_with_colors.value])

\* The catalog, in definition order (a dict keeps insertion order).
DEVICE_ICONS ==
  <<
    \* lines 30-41
    [device_name |-> "all-devices", icon_path |-> <<
        "all-devices/1", "{", "teal", "}", "all-devices/2", "{", "teal", "}", "all-devices/3",
        "{", "teal", "}", "all-devices/4", "{", "teal", "}", "all-devices/5" >>],
    \* lines 42-54
    [device_name |-> "blinds", icon_path |-> <<
        "blinds/1", "{", "teal", "}", "blinds/2" >>],
    \* lines 55-68
    [device_name |-> "camera", icon_path |-> <<
        "camera/1", "{", "teal", "}", "camera/2", "{", "dark", "}", "camera/3", "{", "teal",
        "}", "camera/4", "{", "teal", "}", "camera/5", "{", "dark", "}", "camera/6" >>],
    \* lines 69-81
    [device_name |-> "diffuser", icon_path |-> <<
        "diffuser/1", "{", "teal", "}", "diffuser/2", "{", "dark", "}", "diffuser/3", "{",
        "teal", "}", "diffuser/4", "{", "teal", "}", "diffuser/5", "{", "teal", "}",
        "diffuser/6", "{", "teal", "}", "diffuser/7" >>],
    \* lines 82-96
    [device_name |-> "doorbell", icon_path |-> <<
        "doorbell/1", "{", "teal", "}", "doorbell/2", "{", "dark", "}", "doorbell/3", "{",
        "dark", "}", "doorbell/4", "{", "teal", "}", "doorbell/5", "{", "dark", "}",
        "doorbell/6", "{", "dark", "}", "doorbell/7", "{", "dark", "}", "doorbell/8" >>],
    \* lines 97-107
    [device_name |-> "fan", icon_path |-> <<
        "fan/1", "{", "teal", "}", "fan/2", "{", "teal", "}", "fan/3", "{", "teal", "}",
        "fan/4", "{", "teal", "}", "fan/5", "{", "teal", "}", "fan/6", "{", "dark", "}", "fan/7" >>],
    \* lines 108-119
    [device_name |-> "garage", icon_path |-> <<
        "garage/1", "{", "teal", "}", "garage/2", "{", "dark", "}", "garage/3" >>],
    \* lines 120-134
    [device_name |-> "heater-cooler", icon_path |-> <<
        "heater-cooler/1", "{", "teal", "}", "heater-cooler/2", "{", "dark", "}",
        "heater-cooler/3", "{", "teal", "}", "heater-cooler/4" >>],
    \* lines 135-146
    [device_name |-> "home-away", icon_path |-> <<
        "home-away/1", "{", "teal", "}", "home-away/2", "{", "dark", "}", "home-away/3", "{",
        "teal", "}", "home-away/4" >>],
    \* lines 147-160
    [device_name |-> "humidifier", icon_path |-> <<
        "humidifier/1", "{", "teal", "}", "humidifier/2", "{", "dark", "}", "humidifier/3" >>],
    \* lines 161-175
    [device_name |-> "kettle", icon_path |-> <<
        "kettle/1", "{", "teal", "}", "kettle/2", "{", "dark", "}", "kettle/3", "{", "dark",
        "}", "kettle/4", "{", "dark", "}", "kettle/5" >>],
    \* lines 176-193
    [device_name |-> "light", icon_path |-> <<
        "light/1", "{", "teal", "}", "light/2", "{", "dark", "}", "light/3", "{", "dark", "}",
        "light/4" >>],
    \* lines 194-205
    [device_name |-> "lock", icon_path |-> <<
        "lock/1", "{", "teal", "}", "lock/2", "{", "dark", "}", "lock/3", "{", "teal", "}",
        "lock/4" >>],
    \* lines 206-219
    [device_name |-> "outlet", icon_path |-> <<
        "outlet/1", "{", "teal", "}", "outlet/2", "{", "dark", "}", "outlet/3", "{", "dark",
        "}", "outlet/4", "{", "dark", "}", "outlet/5", "{", "teal", "}", "outlet/6", "{",
        "teal", "}", "outlet/7" >>],
    \* lines 220-232
    [device_name |-> "purifier", icon_path |-> <<
        "purifier/1", "{", "teal", "}", "purifier/2", "{", "dark", "}", "purifier/3", "{",
        "dark", "}", "purifier/4", "{", "dark", "}", "purifier/5" >>],
    \* lines 233-246
    [device_name |-> "robot", icon_path |-> <<
        "robot/1", "{", "teal", "}", "robot/2", "{", "dark", "}", "robot/3", "{", "teal", "}",
        "robot/4", "{", "teal", "}", "robot/5" >>],
    \* lines 247-262
    [device_name |-> "sensor", icon_path |-> <<
        "sensor/1", "{", "teal", "}", "sensor/2", "{", "teal", "}", "sensor/3", "{", "teal",
        "}", "sensor/4", "{", "teal", "}", "sensor/5", "{", "teal", "}", "sensor/6", "{",
        "teal", "}", "sensor/7" >>],
    \* lines 263-278
    [device_name |-> "smoke-co-detector", icon_path |-> <<
        "smoke-co-detector/1", "{", "teal", "}", "smoke-co-detector/2", "{", "teal", "}",
        "smoke-co-detector/3", "{", "dark", "}", "smoke-co-detector/4", "{", "dark", "}",
        "smoke-co-detector/5", "{", "dark", "}", "smoke-co-detector/6", "{", "dark", "}",
        "smoke-co-detector/7", "{", "dark", "}", "smoke-co-detector/8", "{", "dark", "}",
        "smoke-co-detector/9" >>],
    \* lines 279-293
    [device_name |-> "switch", icon_path |-> <<
        "switch/1", "{", "teal", "}", "switch/2", "{", "teal", "}", "switch/3", "{", "dark",
        "}", "switch/4", "{", "dark", "}", "switch/5" >>],
    \* lines 294-312
    [device_name |-> "thermostat", icon_path |-> <<
        "thermostat/1", "{", "teal", "}", "thermostat/2", "{", "dark", "}", "thermostat/3",
        "{", "dark", "}", "thermostat/4", "{", "dark", "}", "thermostat/5", "{", "teal", "}",
        "thermostat/6" >>],
    \* lines 313-328
    [device_name |-> "valve", icon_path |-> <<
        "valve/1", "{", "dark", "}", "valve/2", "{", "dark", "}", "valve/3", "{", "teal", "}",
        "valve/4", "{", "dark", "}", "valve/5", "{", "teal", "}", "valve/6" >>]
  >>

\* for device_name, icon_path in DEVICE_ICONS.items(): insertion order.
dict_items_reversed(d) == [k \in 1..Len(d) |-> d[Len(d) + 1 - k]]

dict_items(d) == d

\* Convert to PNG at different sizes
sizes_xlarge_1024 == << <<"small", 75>>, <<"large", 500>>, <<"xlarge", 1024>> >>

sizes == << <<"small", 75>>, <<"large", 500>>, <<"xlarge", 1000>> >>

----------------------------------------------------------------------------
\* Paths: os.path.join, and the paths main() computes.
join(path, name) == Append(path, name)
dirname(path) == SubSeq(path, 1, Len(path) - 1)

\* The repository root, one level above the script's own directory.
base_dir == <<>>
drivers_dir == join(base_dir, "drivers")
driver_path(device_name) == join(drivers_dir, device_name)
images_path(device_name) == join(join(driver_path(device_name), "assets"), "images")
svg_file(device_name) == join(images_path(device_name), "icon.svg")

\* f"{size_name}.png"
png_name(size_name) ==
  CASE size_name = "small" -> "small.png"
    [] size_name = "large" -> "large.png"
    [] size_name = "xlarge" -> "xlarge.png"
    [] OTHER -> ".png"
png_file(device_name, size_name) == join(images_path(device_name), png_name(size_name))

\* The command line of one conversion.
argv(device_name, size_name, size) ==
  << "rsvg-convert", "-w", ToString(size), "-h", ToString(size),
     svg_file(device_name), "-o", png_file(device_name, size_name) >>

----------------------------------------------------------------------------
\* The filesystem calls.  d is the set of directories, f the files' contents.
Put(f, path, content) ==
  [q \in DOMAIN f \cup {path} |-> IF q = path THEN content ELSE f[q]]
Drop(f, path) == [q \in DOMAIN f \ {path} |-> f[q]]

\* os.makedirs(path, exist_ok): creates the missing ancestors too.
os_makedirs(d, f, path, ok_if_exists) ==
  IF path \in d
  THEN IF ok_if_exists THEN Return(d) ELSE Raise("FileExistsError")
  ELSE IF path \in DOMAIN f THEN Raise("FileExistsError")
  ELSE IF \E k \in 0..(Len(path) - 1) : SubSeq(path, 1, k) \in DOMAIN f
       THEN Raise("NotADirectoryError")
  ELSE Return(d \cup {SubSeq(path, 1, k) : k \in 0..Len(path)})

\* os.makedirs(images_path, exist_ok=True)
exist_ok_missing == FALSE

exist_ok == TRUE

\* with open(path, "w") as f: f.write(content)
open_w(d, f, path, content) ==
  IF path \in d THEN Raise("IsADirectoryError")
  ELSE IF dirname(path) \notin d THEN Raise("FileNotFoundError")
  ELSE Return(Put(f, path, content))

\* A remove that leaves the file where it is.
os_remove_skipped(f, path) == Return(f)

\* os.remove(path)
os_remove(f, path) ==
  IF path \in DOMAIN f THEN Return(Drop(f, path)) ELSE Raise("FileNotFoundError")

\* subprocess.run([...], check=True, capture_output=True) of rsvg-convert, the
\* external rasterizer t: [installed, rejects].  It cannot be started when it
\* is not installed (FileNotFoundError); it exits non-zero, which check=True
\* turns into CalledProcessError, when it cannot read its input, cannot write
\* its output or rejects the (document, width) pair; otherwise it writes the
\* raster of the requested size to the output path.  A run that fails leaves
\* the output path as it was.
subprocess_run(t, d, f, args) ==
  LET w == args[3]
      h == args[5]
      src == args[6]
      dst == args[8]
  IN IF ~t.installed THEN Raise("FileNotFoundError")
     ELSE IF src \notin DOMAIN f \/ dirname(dst) \notin d \/ dst \in d
             \/ <<src, w>> \in t.rejects
          THEN Raise("CalledProcessError")
     ELSE Return(Put(f, dst, [png |-> src, width |-> w, height |-> h]))

\* A handler that catches the launch failure instead of the non-zero exit.
handled_launch_only(exc) == exc = "FileNotFoundError"

\* except subprocess.CalledProcessError as e:
handled(exc) == exc = "CalledProcessError"

----------------------------------------------------------------------------
VARIABLES
  dirs,         \* the directories that exist
  files,        \* path -> content of the regular files that exist
  tool,         \* the rasterizer installed on the machine
  defect,       \* an authoring slip in the catalog, or NoDefect
  pc,           \* the statement main() is at
  i,            \* index of the catalog entry being processed
  s,            \* index in sizes of the size being converted
  svg_content,  \* the local variable svg_content
  console,      \* the lines printed so far by this run
  error,        \* the exception that ended this run, or "none"
  calls,        \* the subprocess.run calls of this run, with their results
  written,      \* the paths this run has written
  prev,         \* what the previous run of main() left, or NoPrev
  fragment,     \* a shape fragment handed to generate_svg alone
  rendered      \* the result of that call, or Pending

vars == << dirs, files, tool, defect, pc, i, s, svg_content, console, error,
           calls, written, prev, fragment, rendered >>
mainVars == << dirs, files, tool, defect, pc, i, s, svg_content, console, error,
               calls, written, prev >>

NoDefect == [at |-> 0, field |-> "", front |-> FALSE]
NoPrev == [ran |-> FALSE]
Pending == [ok |-> FALSE, exc |-> "pending"]

\* The catalog main() iterates over: DEVICE_ICONS, with the authoring slip (a
\* replacement field of an unknown name at the front or the end of one entry's
\* fragment) when there is one.
Authored ==
  [k \in 1..Len(DEVICE_ICONS) |->
     IF k # defect.at THEN DEVICE_ICONS[k]
     ELSE [DEVICE_ICONS[k] EXCEPT !.icon_path =
             IF defect.front THEN <<"{", defect.field, "}">> \o @
             ELSE @ \o <<"{", defect.field, "}">>]]
icons == dict_items(Authored)

Names == {DEVICE_ICONS[k].device_name : k \in 1..Len(DEVICE_ICONS)}

\* The trees a run may start from: a checkout with one directory per driver,
\* or the same with the images an earlier version of the script left there.
CheckoutDirs == {base_dir, drivers_dir} \cup {driver_path(n) : n \in Names}
BuiltDirs ==
  CheckoutDirs \cup {join(driver_path(n), "assets") : n \in Names}
               \cup {images_path(n) : n \in Names}
OldPng == [png |-> <<"old">>, width |-> "0", height |-> "0"]
BuiltFiles ==
  [p \in {png_file(n, sizes[k][1]) : n \in Names, k \in 1..Len(sizes)} |-> OldPng]
EmptyFiles == [p \in {} |-> OldPng]

\* The (document, width) pairs the rasterizer may reject: those of the first,
\* the second, the middle and the last catalog entry.
RejectableAt == {1, 2, (Len(DEVICE_ICONS) + 1) \div 2, Len(DEVICE_ICONS)}
Pairs ==
  {<<svg_file(DEVICE_ICONS[k].device_name), ToString(sizes[z][2])>> :
     k \in RejectableAt, z \in 1..Len(sizes)}
RECURSIVE SubsetsUpTo(_, _)
SubsetsUpTo(S, n) ==
  IF n = 0 THEN {{}}
  ELSE LET smaller == SubsetsUpTo(S, n - 1)
       IN smaller \cup {x \cup {e} : x \in smaller, e \in S}
Tools ==
  {[installed |-> FALSE, rejects |-> {}]}
  \cup {[installed |-> TRUE, rejects |-> r] : r \in SubsetsUpTo(Pairs, MaxRejects)}

InitTree ==
  \/ dirs = CheckoutDirs /\ files = EmptyFiles
  \/ dirs = BuiltDirs /\ files = BuiltFiles

InitRun ==
  /\ pc = "makedirs"
  /\ i = 1
  /\ s = 1
  /\ svg_content = <<>>
  /\ console = <<>>
  /\ error = "none"
  /\ calls = <<>>
  /\ written = {}
  /\ prev = NoPrev

Init ==
  /\ InitTree
  /\ tool \in Tools
  /\ defect = NoDefect
  /\ InitRun
  /\ fragment = <<>>
  /\ rendered = Pending

----------------------------------------------------------------------------
\* The statements of main().
device_name == icons[i].device_name
icon_path == icons[i].icon_path

Abort(exc) ==
  /\ pc' = "aborted"
  /\ error' = exc

\* os.makedirs(images_path, exist_ok=True)
MakeDirs ==
  /\ pc = "makedirs"
  /\ LET r == os_makedirs(dirs, files, images_path(device_name), exist_ok) IN
       IF r.ok
       THEN /\ dirs' = r.value
            /\ pc' = "generate"
            /\ error' = error
       ELSE /\ Abort(r.exc)
            /\ dirs' = dirs
  /\ UNCHANGED << files, tool, defect, i, s, svg_content, console, calls, written,
                  prev, fragment, rendered >>

\* svg_content = generate_svg(device_name, icon_path)
GenerateSvg ==
  /\ pc = "generate"
  /\ LET r == generate_svg(device_name, icon_path) IN
       IF r.ok
       THEN /\ svg_content' = r.value
            /\ pc' = "write"
            /\ error' = error
       ELSE /\ Abort(r.exc)
            /\ svg_content' = svg_content
  /\ UNCHANGED << dirs, files, tool, defect, i, s, console, calls, written, prev,
                  fragment, rendered >>

SvgLine(n) == [line |-> "Created SVG for", what |-> n, size |-> 0, e |-> ""]
PngLine(size_name, size) == [line |-> "Created", what |-> size_name, size |-> size, e |-> ""]
ErrorLine(size_name, exc) == [line |-> "ERROR creating", what |-> size_name, size |-> 0, e |-> exc]

\* with open(svg_file, "w") as f: f.write(svg_content); print(...)
WriteSvg ==
  /\ pc = "write"
  /\ LET r == open_w(dirs, files, svg_file(device_name), svg_content) IN
       IF r.ok
       THEN /\ files' = r.value
            /\ written' = written \cup {svg_file(device_name)}
            /\ console' = Append(console, SvgLine(device_name))
            /\ pc' = "convert"
            /\ s' = 1
            /\ error' = error
       ELSE /\ Abort(r.exc)
            /\ UNCHANGED << files, written, console, s >>
  /\ UNCHANGED << dirs, tool, defect, i, svg_content, calls, prev, fragment, rendered >>

\* One turn of "for size_name, size in sizes": the conversion, its progress or
\* error line, and the step to the next size or to the removal.
Convert ==
  /\ pc = "convert"
  /\ LET size_name == sizes[s][1]
         size == sizes[s][2]
         args == argv(device_name, size_name, size)
         r == subprocess_run(tool, dirs, files, args)
         call == [device_name |-> device_name, argv |-> args,
                  src_on_disk |-> svg_file(device_name) \in DOMAIN files,
                  result |-> IF r.ok THEN "ok" ELSE r.exc]
     IN /\ calls' = Append(calls, call)
        /\ IF r.ok
           THEN /\ files' = r.value
                /\ written' = written \cup {args[8]}
                /\ console' = Append(console, PngLine(size_name, size))
           ELSE /\ files' = files
                /\ written' = written
                /\ console' = IF handled(r.exc)
                              THEN Append(console, ErrorLine(size_name, r.exc))
                              ELSE console
        /\ IF r.ok \/ handled(r.exc)
           THEN /\ error' = error
                /\ IF s < Len(sizes)
                   THEN s' = s + 1 /\ pc' = "convert"
                   ELSE s' = s /\ pc' = "remove"
           ELSE /\ Abort(r.exc)
                /\ s' = s
  /\ UNCHANGED << dirs, tool, defect, i, svg_content, prev, fragment, rendered >>

\* os.remove(svg_file), then the next catalog entry or the end of main().
Remove ==
  /\ pc = "remove"
  /\ LET r == os_remove(files, svg_file(device_name)) IN
       IF r.ok
       THEN /\ files' = r.value
            /\ i' = i + 1
            /\ pc' = IF i < Len(icons) THEN "makedirs" ELSE "done"
            /\ error' = error
       ELSE /\ Abort(r.exc)
            /\ UNCHANGED << files, i >>
  /\ UNCHANGED << dirs, tool, defect, s, svg_content, console, calls, written, prev,
                  fragment, rendered >>

Next == MakeDirs \/ GenerateSvg \/ WriteSvg \/ Convert \/ Remove

Spec == Init /\ [][Next]_vars

----------------------------------------------------------------------------
\* main() run again on the tree the previous run left, with the same
\* rasterizer.
Ended == pc \in {"done", "aborted"}

Rerun ==
  /\ Ended
  /\ prev' = [ran |-> TRUE, dirs |-> dirs, files |-> files, console |-> console,
              written |-> written, pc |-> pc, error |-> error]
  /\ pc' = "makedirs"
  /\ i' = 1
  /\ s' = 1
  /\ svg_content' = <<>>
  /\ console' = <<>>
  /\ error' = "none"
  /\ calls' = <<>>
  /\ written' = {}
  /\ UNCHANGED << dirs, files, tool, defect, fragment, rendered >>

NextRerun == Next \/ Rerun

SpecRerun == Init /\ [][NextRerun]_vars

----------------------------------------------------------------------------
\* A catalog with an authoring slip: one entry names a field that generate_svg
\* does not supply.
UnknownFields == {"accent", "primary"}
Defects ==
  {[at |-> k, field |-> n, front |-> b] :
     k \in 1..Len(DEVICE_ICONS), n \in UnknownFields, b \in BOOLEAN}

InitAuthoring ==
  /\ InitTree
  /\ tool = [installed |-> TRUE, rejects |-> {}]
  /\ defect \in Defects
  /\ InitRun
  /\ fragment = <<>>
  /\ rendered = Pending

SpecAuthoring == InitAuthoring /\ [][Next]_vars

----------------------------------------------------------------------------
\* generate_svg alone, on every tokenized fragment of at most MaxLen tokens
\* over an alphabet of the braces, the two known field names, an unknown one
\* and a piece of markup.
Alphabet == {"{", "}", "teal", "dark", "accent", "<path/>"}
Tokenized(t) ==
  \A k \in 1..(Len(t) - 1) : t[k] \in Braces \/ t[k + 1] \in Braces
Fragments ==
  UNION {{t \in [1..n -> Alphabet] : Tokenized(t)} : n \in 0..MaxLen}

InitRender ==
  /\ dirs = CheckoutDirs /\ files = EmptyFiles
  /\ tool = [installed |-> TRUE, rejects |-> {}]
  /\ defect = NoDefect
  /\ InitRun
  /\ fragment \in Fragments
  /\ rendered = Pending

Render ==
  /\ rendered = Pending
  /\ rendered' = generate_svg("icon", fragment)
  /\ UNCHANGED << mainVars, fragment >>

NextRender == Render

SpecRender == InitRender /\ [][NextRender]_vars

----------------------------------------------------------------------------
\* What the properties below compare the program against.

\* The 21 identifiers, in the order of the catalog.
ExpectedIdentifiers ==
  << "all-devices", "blinds", "camera", "diffuser", "doorbell", "fan", "garage",
     "heater-cooler", "home-away", "humidifier", "kettle", "light", "lock", "outlet",
     "purifier", "robot", "sensor", "smoke-co-detector", "switch", "thermostat",
     "valve" >>
ExpectedSizes ==
  << [name |-> "small", file |-> "small.png", px |-> "75"],
     [name |-> "large", file |-> "large.png", px |-> "500"],
     [name |-> "xlarge", file |-> "xlarge.png", px |-> "1000"] >>
AssetDir(n) == <<"drivers", n, "assets", "images">>
IconSvg(n) == <<"drivers", n, "assets", "images", "icon.svg">>
RasterPath(n, z) == <<"drivers", n, "assets", "images", ExpectedSizes[z].file>>
IsUnder(path, dir) == Len(path) >= Len(dir) /\ SubSeq(path, 1, Len(dir)) = dir
IsSvgPath(p) == Len(p) > 0 /\ p[Len(p)] = "icon.svg"

\* The identifiers this run has announced, in order.
ProcessedIn(out) ==
  LET svgLines == SelectSeq(out, LAMBDA l : l.line = "Created SVG for")
  IN [k \in 1..Len(svgLines) |-> svgLines[k].what]
Processed == ProcessedIn(console)
\* The lines this run has printed for its conversions, in order.
SizeLines == SelectSeq(console, LAMBDA l : l.line # "Created SVG for")
CallsOf(n) == SelectSeq(calls, LAMBDA c : c.device_name = n)
IsPrefix(a, b) == Len(a) <= Len(b) /\ a = SubSeq(b, 1, Len(a))
\* The icon.svg files this run wrote and that are still on disk.
SvgLeft == {p \in written \cap DOMAIN files : IsSvgPath(p)}

\* The three rasters of identifier n are on disk, written by this run, with
\* the required dimensions; this run left nothing else in n's directory and
\* no icon.svg is there.
RastersInPlace(n) ==
  /\ \A z \in 1..3 :
       LET p == RasterPath(n, z) IN
         /\ p \in DOMAIN files
         /\ p \in written
         /\ files[p].width = ExpectedSizes[z].px
         /\ files[p].height = ExpectedSizes[z].px
  /\ {p \in written \cap DOMAIN files : IsUnder(p, AssetDir(n))}
       = {RasterPath(n, z) : z \in 1..3}
  /\ IconSvg(n) \notin DOMAIN files
AllConverted(n) ==
  /\ Len(CallsOf(n)) = 3
  /\ \A k \in 1..3 : CallsOf(n)[k].result = "ok"

\* C1, as claimed: when main() has run to its end, every one of the 21
\* identifiers has its three rasters of this run in place and no icon.svg.
C1_AllRastersAfterRun ==
  pc = "done" => \A k \in 1..21 : RastersInPlace(ExpectedIdentifiers[k])

\* C1, amended: every identifier whose processing is over and whose three
\* conversions all exited with status zero has its three rasters of this run in
\* place and no icon.svg; when main() has run to its end that is so for each of
\* the 21 identifiers whose conversions all succeeded.
C1_RastersOfConvertedIcons ==
  /\ pc = "done" => i = 22
  /\ \A k \in 1..21 :
       (k < i /\ AllConverted(ExpectedIdentifiers[k]))
         => RastersInPlace(ExpectedIdentifiers[k])
C1_Witness ==
  /\ pc = "done"
  /\ dirs = BuiltDirs
  /\ \A k \in 1..21 : AllConverted(ExpectedIdentifiers[k])
  /\ \A k \in 1..21 : RastersInPlace(ExpectedIdentifiers[k])

\* The k-th conversion of a run is that of identifier ((k-1) div 3)+1 at size
\* ((k-1) mod 3)+1.
NthIcon(k) == ExpectedIdentifiers[((k - 1) \div 3) + 1]
NthSize(k) == ExpectedSizes[((k - 1) % 3) + 1]
InCatalogOrder ==
  \A k \in 1..Len(calls) :
    /\ k <= 63
    /\ calls[k].device_name = NthIcon(k)
    /\ calls[k].argv[3] = NthSize(k).px

\* C2: once a conversion has exited with a non-zero status, an error line for
\* that size has been printed, the run has not aborted, the conversions go on
\* in catalog order through the remaining sizes and icons, the icon.svg of
\* every icon whose processing is over has been deleted, and at the end of the
\* run all 63 conversions have been attempted and all 21 icons announced.
C2_NonZeroExitTolerated ==
  (\E k \in 1..Len(calls) : calls[k].result = "CalledProcessError") =>
    /\ pc # "aborted"
    /\ error = "none"
    /\ InCatalogOrder
    /\ \A k \in 1..Len(calls) :
         calls[k].result = "CalledProcessError" =>
           /\ Len(SizeLines) >= k
           /\ SizeLines[k].line = "ERROR creating"
           /\ SizeLines[k].what = NthSize(k).name
           /\ (pc = "convert" => Len(calls) = 3 * (i - 1) + (s - 1))
    /\ \A k \in 1..21 : k < i => IconSvg(ExpectedIdentifiers[k]) \notin DOMAIN files
    /\ pc = "done" =>
         /\ Len(calls) = 63
         /\ Processed = ExpectedIdentifiers
         /\ SvgLeft = {}
C2_Witness ==
  /\ pc = "done"
  /\ calls[2].result = "CalledProcessError"
  /\ calls[3].result = "ok"
  /\ Len(calls) = 63
  /\ IconSvg("all-devices") \notin DOMAIN files

\* C3, as claimed: a conversion that could not be started is reported for its
\* size and does not abort the run.
C3_LaunchFailureTolerated ==
  \A k \in 1..Len(calls) :
    calls[k].result = "FileNotFoundError" =>
      /\ pc # "aborted"
      /\ Len(SizeLines) >= k
      /\ SizeLines[k].line = "ERROR creating"

\* C4, as claimed: after a run has ended, no icon.svg that the run wrote is
\* still on disk.
C4_NoSvgLeftAfterRun == Ended => SvgLeft = {}

\* C5: with an unknown field in the fragment of entry defect.at, the run
\* reaches that entry and no later one, raises KeyError in generate_svg there,
\* aborts, and writes no file and runs no conversion for that entry; no
\* document on disk holds a brace.
C5_UnknownFieldAborts ==
  defect # NoDefect =>
    /\ i <= defect.at
    /\ i = defect.at => pc \in {"makedirs", "generate", "aborted"}
    /\ pc # "done"
    /\ pc = "aborted" => (i = defect.at /\ error = "KeyError")
    /\ \A p \in written :
         \E k \in 1..(defect.at - 1) : IsUnder(p, AssetDir(ExpectedIdentifiers[k]))
    /\ \A k \in 1..Len(calls) :
         \E j \in 1..(defect.at - 1) : calls[k].device_name = ExpectedIdentifiers[j]
    /\ Len(Processed) < defect.at
    /\ \A p \in DOMAIN files :
         IsSvgPath(p) => \A k \in 1..Len(files[p]) : files[p][k] \notin Braces
C5_Witness ==
  /\ defect.at = 5
  /\ pc = "aborted"
  /\ error = "KeyError"
  /\ Len(calls) = 12
  /\ dirs \cap {AssetDir("doorbell")} # {}
  /\ \A p \in DOMAIN files : ~IsUnder(p, AssetDir("doorbell")) \/ files[p] = OldPng

\* C6: a run announces the catalog identifiers in catalog order, each once;
\* a full run announces exactly the 21 of them; two full runs announce them in
\* the same order.
C6_CatalogOrder ==
  /\ IsPrefix(Processed, ExpectedIdentifiers)
  /\ pc = "done" => Processed = ExpectedIdentifiers
  /\ (pc = "done" /\ prev.ran /\ prev.pc = "done")
       => ProcessedIn(prev.console) = Processed
C6_Witness ==
  /\ pc = "done"
  /\ prev.ran
  /\ prev.pc = "done"
  /\ Len(Processed) = 21

IsRasterPath(p) == Len(p) > 0 /\ p[Len(p)] \in {"small.png", "large.png", "xlarge.png"}

\* C7: a run that follows another, with the same rasterizer, does not fail on
\* what the first one left (it ends as the first one did), and when it has
\* ended it has written again every raster the first one wrote and the tree is
\* the one the first run left.
C7_RerunIdempotent ==
  prev.ran =>
    /\ error \notin {"FileExistsError", "NotADirectoryError", "IsADirectoryError"}
    /\ pc = "aborted" => (prev.pc = "aborted" /\ error = prev.error)
    /\ Ended =>
         /\ files = prev.files
         /\ dirs = prev.dirs
         /\ \A p \in prev.written : IsRasterPath(p) => p \in written
C7_Witness ==
  /\ prev.ran
  /\ pc = "done"
  /\ Cardinality({p \in written : IsRasterPath(p)}) = 63
  /\ files = prev.files

\* The fragment with every field {teal} replaced by #44DBBD and every field
\* {dark} by #2F2E2E, nothing else changed.
RECURSIVE SubstitutedFrom(_, _)
SubstitutedFrom(t, k) ==
  IF k > Len(t) THEN <<>>
  ELSE IF k + 2 <= Len(t) /\ t[k] = "{" /\ t[k + 1] \in {"teal", "dark"} /\ t[k + 2] = "}"
       THEN <<IF t[k + 1] = "teal" THEN "#44DBBD" ELSE "#2F2E2E">>
            \o SubstitutedFrom(t, k + 3)
  ELSE <<t[k]>> \o SubstitutedFrom(t, k + 1)
\* Every brace of the fragment belongs to a field written {teal} or {dark}.
RECURSIVE PlainFieldsFrom(_, _)
PlainFieldsFrom(t, k) ==
  IF k > Len(t) THEN TRUE
  ELSE IF t[k] = "{"
       THEN /\ k + 2 <= Len(t)
            /\ t[k + 1] \in {"teal", "dark"}
            /\ t[k + 2] = "}"
            /\ PlainFieldsFrom(t, k + 3)
  ELSE t[k] # "}" /\ PlainFieldsFrom(t, k + 1)
Background == "  <rect width=\"1000\" height=\"1000\" fill=\"white\"/>\n"
Group == "  <g transform=\"translate(500, 500)\">\n"
Index(t, x) == CHOOSE k \in 1..Len(t) : t[k] = x
\* The document is the template around the substituted fragment, with the
\* background before the group, and holds no brace.
DocumentAsClaimed ==
  LET doc == rendered.value
      body == SubstitutedFrom(fragment, 1)
  IN /\ doc = SubSeq(SVG_TEMPLATE, 1, 6) \o body \o SubSeq(SVG_TEMPLATE, 10, 12)
     /\ \E k \in 1..Len(doc) : doc[k] = Background
     /\ \E k \in 1..Len(doc) : doc[k] = Group
     /\ Index(doc, Background) < Index(doc, Group)
     /\ SubSeq(doc, Index(doc, Group) + 2, Index(doc, Group) + 1 + Len(body)) = body
     /\ \A k \in 1..Len(doc) : doc[k] \notin Braces

C9_Step ==
  /\ Cardinality(SvgLeft') <= 1
  /\ \A p \in SvgLeft' : i' <= 21 /\ p = IconSvg(ExpectedIdentifiers[i'])
  /\ i <= 21 =>
       LET n == ExpectedIdentifiers[i] IN
         /\ \A p \in DOMAIN files \cup DOMAIN files' :
              (p \notin DOMAIN files \/ p \notin DOMAIN files' \/ files[p] # files'[p])
                => (IsUnder(p, AssetDir(n)) /\ Len(p) = 5)
         /\ \A q \in dirs' \ dirs : IsUnder(q, <<"drivers", n>>)
         /\ dirs \subseteq dirs'
         /\ i' # i => (i' = i + 1 /\ IconSvg(n) \notin DOMAIN files')
C9_OneIconAtATime == [][C9_Step]_vars
C9_Witness ==
  /\ pc = "convert"
  /\ i = 2
  /\ s = 3
  /\ SvgLeft = {IconSvg("blinds")}
  /\ IconSvg("all-devices") \notin DOMAIN files
  /\ RasterPath("all-devices", 1) \in written

\* C10, as claimed: when a run has ended, every icon it has processed has had
\* exactly three conversions, small, large, xlarge in that order, each square,
\* from the icon's icon.svg to <size-name>.png in the icon's directory, each
\* made while that icon.svg was on disk.
C10_ThreeConversionsPerIcon ==
  Ended =>
    \A k \in 1..Len(Processed) :
      LET n == Processed[k]
          c == CallsOf(n)
      IN /\ Len(c) = 3
         /\ \A z \in 1..3 :
              /\ c[z].argv = << "rsvg-convert", "-w", ExpectedSizes[z].px, "-h",
                                ExpectedSizes[z].px, IconSvg(n), "-o", RasterPath(n, z) >>
              /\ c[z].src_on_disk
====
